---- MODULE Spec2Model ----
(***************************************************************************)
(* locat: geo-location of addresses with per-country analytics kept in a   *)
(* SQLite table behind tokio-rusqlite's Connection (one dedicated thread   *)
(* per connection, closures sent over a channel, answers over a oneshot).  *)
(***************************************************************************)
EXTENDS Integers, Sequences, FiniteSets, TLC

\* ---------------------------------------------------------------- bounds
NumTasks == 2       \* concurrent callers sharing the handles
MaxCalls == 3       \* calls that reach conn.call, over the whole run

Tasks == 1..NumTasks
Codes == {"US", "FR"}
Addrs == {"ip_us", "ip_fr", "ip_unknown"}
None  == "None"

VARIABLES
    tableExists,    \* the analytics table exists in the file at the path
    table,          \* its rows, in rowid order: [iso_code, count]
    handle,         \* who holds the open Connection: "none", "Db", "Locat"
    queue,          \* closures sent to the connection's thread, oldest first
    running,        \* the closure the connection's thread is executing
    built,          \* what the last Db::open or Locat::new returned
    pc,             \* pc[t]: "idle" or "awaiting" (suspended in conn.call)
    op,             \* op[t]: the public function t is inside
    arg,            \* arg[t]: its argument (None when it takes none)
    wait,           \* wait[t]: the call whose oneshot t awaits
    reply,          \* reply[t]: what arrived on that oneshot
    ret,            \* what the function that finished last returned, NoRet
                    \* once a later call has started
    nextId,         \* number of conn.call made so far, plus one
    stderr,         \* lines written by eprintln!
    okInc,          \* okInc[code]: increments that returned Ok to the caller
    gone            \* some increment's future was dropped before it resumed

vars == <<tableExists, table, handle, queue, running, built,
          pc, op, arg, wait, reply, ret, nextId, stderr, okInc, gone>>

fileVars == <<tableExists, table>>
connVars == <<handle, queue, running>>
bootVars == <<built>>
taskVars == <<pc, op, arg, wait, reply, ret>>
histVars == <<okInc, gone>>

NoJob   == [kind |-> "none", code |-> None, id |-> 0]
NoReply == [ok |-> FALSE, rows |-> <<>>, sent |-> FALSE]
\* ret: op the function, arg its argument, ok/code/rows its value (Ok or
\* Some: ok), inner what the conn.call it awaited returned, id that call
NoRet   == [op |-> "none", arg |-> None, ok |-> FALSE, code |-> None,
            rows |-> <<>>, inner |-> "-", id |-> 0]

\* ------------------------------------------------------ the geoip reader
\* reader.lookup(addr).ok()?.country?.iso_code? : a code, or None
lookup(addr) ==
    CASE addr = "ip_us" -> "US"
      [] addr = "ip_fr" -> "FR"
      [] OTHER          -> None

\* ------------------------------------------------------- SQL statements
HasRow(tbl, code) == \E i \in DOMAIN tbl : tbl[i].iso_code = code

CountOf(tbl, code) ==
    IF HasRow(tbl, code)
    THEN (CHOOSE r \in {tbl[i] : i \in DOMAIN tbl} : r.iso_code = code).count
    ELSE 0

\* CREATE TABLE analytics (..): an error when the table is there
CreateTable(exists, tbl) ==
    [ok |-> ~exists, exists |-> TRUE, table |-> IF exists THEN tbl ELSE <<>>]

\* DROP TABLE IF EXISTS analytics; CREATE TABLE analytics (..)
DropAndCreateTable(exists, tbl) ==
    [ok |-> TRUE, exists |-> TRUE, table |-> <<>>]

\* CREATE TABLE IF NOT EXISTS analytics (iso_code TEXT PRIMARY KEY, count ...)
CreateTableIfNotExists(exists, tbl) ==
    [ok |-> TRUE, exists |-> TRUE, table |-> IF exists THEN tbl ELSE <<>>]

\* ... ON CONFLICT (iso_code) DO NOTHING
Upsert_do_nothing(tbl, code) ==
    IF HasRow(tbl, code) THEN tbl
    ELSE Append(tbl, [iso_code |-> code, count |-> 1])

\* ... DO UPDATE SET count = count + 2
Upsert_twice(tbl, code) ==
    IF HasRow(tbl, code)
    THEN [i \in DOMAIN tbl |->
            IF tbl[i].iso_code = code
            THEN [tbl[i] EXCEPT !.count = @ + 2]
            ELSE tbl[i]]
    ELSE Append(tbl, [iso_code |-> code, count |-> 1])

\* ... VALUES (?, 0) ...
Upsert_from_zero(tbl, code) ==
    IF HasRow(tbl, code)
    THEN [i \in DOMAIN tbl |->
            IF tbl[i].iso_code = code
            THEN [tbl[i] EXCEPT !.count = @ + 1]
            ELSE tbl[i]]
    ELSE Append(tbl, [iso_code |-> code, count |-> 0])

\* a plain INSERT on a table whose iso_code is no key
Upsert_no_key(tbl, code) ==
    Append(tbl, [iso_code |-> code, count |-> 1])

\* INSERT ... VALUES (?, 1) ON CONFLICT (iso_code) DO UPDATE SET count = count + 1
Upsert(tbl, code) ==
    IF HasRow(tbl, code)
    THEN [i \in DOMAIN tbl |->
            IF tbl[i].iso_code = code
            THEN [tbl[i] EXCEPT !.count = @ + 1]
            ELSE tbl[i]]
    ELSE Append(tbl, [iso_code |-> code, count |-> 1])

\* the closure of Db::increment; fault: prepare or execute returns Err
\* the statement that fails has written its row all the same
increment_closure_partial(exists, tbl, code, fault) ==
    IF ~exists
    THEN [ok |-> FALSE, table |-> tbl]
    ELSE [ok |-> ~fault, table |-> Upsert(tbl, code)]

increment_closure(exists, tbl, code, fault) ==
    IF fault \/ ~exists
    THEN [ok |-> FALSE, table |-> tbl]
    ELSE [ok |-> TRUE,  table |-> Upsert(tbl, code)]

\* while let Some(row) = rows.next()? { analytics.push((iso_code, count)) }
\* failAt = i: reading row i returns Err and `?` leaves the closure
RECURSIVE rows_next(_, _, _, _)
rows_next(tbl, i, analytics, failAt) ==
    IF i > Len(tbl) THEN [ok |-> TRUE, rows |-> analytics]
    ELSE IF failAt = i THEN [ok |-> FALSE, rows |-> <<>>]
    ELSE rows_next(tbl, i + 1,
                   Append(analytics, <<tbl[i].iso_code, tbl[i].count>>), failAt)

\* the closure of Db::list; failAt = 0: prepare or query returns Err,
\* failAt = -1: no statement fails
list_closure(exists, tbl, failAt) ==
    IF failAt = 0 \/ ~exists
    THEN [ok |-> FALSE, rows |-> <<>>]
    ELSE rows_next(tbl, 1, <<>>, failAt)

\* ------------------------------------------------------------------ Init
\* a path with no file yet, nothing constructed, every caller idle
Init ==
    /\ tableExists = FALSE
    /\ table = <<>>
    /\ handle = "none"
    /\ queue = <<>>
    /\ running = NoJob
    /\ built = "none"
    /\ pc = [t \in Tasks |-> "idle"]
    /\ op = [t \in Tasks |-> "none"]
    /\ arg = [t \in Tasks |-> None]
    /\ wait = [t \in Tasks |-> 0]
    /\ reply = [t \in Tasks |-> NoReply]
    /\ ret = NoRet
    /\ nextId = 1
    /\ stderr = 0
    /\ okInc = [c \in Codes |-> 0]
    /\ gone = FALSE

\* ------------------------------------------------- Db::open, Locat::new
\* the closure of Db::open; fault: conn.execute returns Err
bootstrap_closure(exists, tbl, fault) ==
    IF fault
    THEN [ok |-> FALSE, exists |-> exists, table |-> tbl]
    ELSE CreateTableIfNotExists(exists, tbl)

\* the bootstrap closure's Result dropped instead of `?`
open_result_unchecked(fault) ==
    IF fault = "open" THEN "Rusqlite" ELSE "Ok"

\* Db::open(path): Connection::open(path).await?, then the bootstrap
\* closure on the new connection's thread, then Ok(Self { conn }).
\* fault: "none", "open" (Connection::open fails), "bootstrap"
open_result(fault) ==
    IF fault = "open" THEN "Rusqlite"
    ELSE IF bootstrap_closure(tableExists, table, fault = "bootstrap").ok
         THEN "Ok" ELSE "Rusqlite"

open_effect(owner, fault) ==
    /\ IF fault = "open"
       THEN UNCHANGED fileVars
       ELSE LET boot == bootstrap_closure(tableExists, table, fault = "bootstrap")
            IN  /\ tableExists' = boot.exists
                /\ table' = boot.table
    /\ handle' = IF open_result(fault) = "Ok" THEN owner ELSE "none"
    /\ built' = open_result(fault)
    /\ UNCHANGED <<queue, running>>

Db_open(fault) ==
    /\ handle = "none"
    /\ open_effect("Db", fault)
    /\ UNCHANGED <<taskVars, nextId, stderr, histVars>>

\* Locat::new: tokio::fs::read(..).await?, Reader::from_source(..)?,
\* Db::open(..).await?   geo: "none", "io", "maxminddb"
Locat_new(geo, fault) ==
    /\ handle = "none"
    /\ IF geo # "none"
       THEN /\ built' = IF geo = "io" THEN "Io" ELSE "MaxMindDb"
            /\ UNCHANGED <<fileVars, connVars>>
       ELSE open_effect("Locat", fault)
    /\ UNCHANGED <<taskVars, nextId, stderr, histVars>>

\* the owner of the Connection goes away once no call borrows it and its
\* thread has run what was sent: the file stays, the next start opens it again
Db_drop ==
    /\ handle # "none"
    /\ \A t \in Tasks : pc[t] = "idle"
    /\ queue = <<>>
    /\ running = NoJob
    /\ handle' = "none"
    /\ UNCHANGED <<fileVars, queue, running, bootVars, taskVars, nextId, stderr,
                   histVars>>

\* ------------------------------------------------------------ conn.call
\* idle callers are interchangeable: the next call is the lowest one's
NextCaller ==
    IF \E t \in Tasks : pc[t] = "idle"
    THEN CHOOSE t \in Tasks : pc[t] = "idle" /\ \A u \in Tasks : pc[u] = "idle" => t <= u
    ELSE 0

\* Connection::call: the closure goes to the connection's thread, the
\* caller awaits the oneshot
call(t, owner, fn, a, kind, code) ==
    /\ t = NextCaller
    /\ handle = owner
    /\ nextId <= MaxCalls
    /\ queue' = Append(queue, [kind |-> kind, code |-> code, id |-> nextId])
    /\ nextId' = nextId + 1
    /\ pc' = [pc EXCEPT ![t] = "awaiting"]
    /\ op' = [op EXCEPT ![t] = fn]
    /\ arg' = [arg EXCEPT ![t] = a]
    /\ wait' = [wait EXCEPT ![t] = nextId]
    /\ reply' = [reply EXCEPT ![t] = NoReply]
    /\ ret' = NoRet
    /\ UNCHANGED <<handle, running>>

\* the caller leaves its function with a value
return(t, value) ==
    /\ pc' = [pc EXCEPT ![t] = "idle"]
    /\ op' = [op EXCEPT ![t] = "none"]
    /\ arg' = [arg EXCEPT ![t] = None]
    /\ wait' = [wait EXCEPT ![t] = 0]
    /\ reply' = [reply EXCEPT ![t] = NoReply]
    /\ ret' = value

resumed(t, fn) ==
    /\ pc[t] = "awaiting"
    /\ op[t] = fn
    /\ reply[t].sent

\* ------------------------------------------------------------------- Db
\* the caller runs the statement on the connection itself
Db_increment_direct(t, code) ==
    /\ t = NextCaller
    /\ handle = "Db"
    /\ nextId <= MaxCalls
    /\ table' = Upsert(table, code)
    /\ nextId' = nextId + 1
    /\ ret' = [op |-> "increment", arg |-> code, ok |-> TRUE, code |-> None,
               rows |-> <<>>, inner |-> "ok", id |-> nextId]
    /\ okInc' = [okInc EXCEPT ![code] = @ + 1]
    /\ UNCHANGED <<tableExists, connVars, bootVars, pc, op, arg, wait, reply,
                   stderr, gone>>

\* Db is private to the crate: its functions are called on a Db held
\* directly (as test_db does) or, by Locat's functions, on self.analytics
Db_increment(t, code) ==
    /\ call(t, "Db", "increment", code, "increment", code)
    /\ UNCHANGED <<fileVars, bootVars, stderr, histVars>>

\* self.conn.call(..).await : the closure's Result, as it is
increment_ret(code, r, id) ==
    [op |-> "increment", arg |-> code, ok |-> r.ok, code |-> None, rows |-> <<>>,
     inner |-> IF r.ok THEN "ok" ELSE "err", id |-> id]

\* an Err makes increment send its closure again
Db_increment_done_retry(t) ==
    /\ resumed(t, "increment")
    /\ IF reply[t].ok
       THEN /\ return(t, increment_ret(arg[t], reply[t], wait[t]))
            /\ okInc' = [okInc EXCEPT ![arg[t]] = @ + 1]
            /\ UNCHANGED connVars
       ELSE /\ queue' = Append(queue, [kind |-> "increment", code |-> arg[t],
                                       id |-> wait[t]])
            /\ reply' = [reply EXCEPT ![t] = NoReply]
            /\ UNCHANGED <<handle, running, pc, op, arg, wait, ret, okInc>>
    /\ UNCHANGED <<fileVars, bootVars, nextId, stderr, gone>>

Db_increment_done(t) ==
    /\ resumed(t, "increment")
    /\ return(t, increment_ret(arg[t], reply[t], wait[t]))
    /\ okInc' = IF reply[t].ok THEN [okInc EXCEPT ![arg[t]] = @ + 1] ELSE okInc
    /\ UNCHANGED <<fileVars, connVars, bootVars, nextId, stderr, gone>>

Db_list(t) ==
    /\ call(t, "Db", "list", None, "list", None)
    /\ UNCHANGED <<fileVars, bootVars, stderr, histVars>>

list_ret(r, id) ==
    [op |-> "list", arg |-> None, ok |-> r.ok, code |-> None, rows |-> r.rows,
     inner |-> IF r.ok THEN "ok" ELSE "err", id |-> id]

Db_list_done(t) ==
    /\ resumed(t, "list")
    /\ return(t, list_ret(reply[t], wait[t]))
    /\ UNCHANGED <<fileVars, connVars, bootVars, nextId, stderr, histVars>>

\* ---------------------------------------------------------------- Locat
\* the increment handed to a spawned task, Some(iso_code) returned at once
Locat_ip_to_iso_code_spawn(t, addr) ==
    /\ handle = "Locat"
    /\ t = NextCaller
    /\ IF lookup(addr) = None
       THEN /\ ret' = [NoRet EXCEPT !.op = "ip_to_iso_code", !.arg = addr]
            /\ UNCHANGED <<connVars, nextId>>
       ELSE /\ nextId <= MaxCalls
            /\ queue' = Append(queue, [kind |-> "increment", code |-> lookup(addr),
                                       id |-> nextId])
            /\ nextId' = nextId + 1
            /\ ret' = [op |-> "ip_to_iso_code", arg |-> addr, ok |-> TRUE,
                       code |-> lookup(addr), rows |-> <<>>, inner |-> "-",
                       id |-> nextId]
            /\ UNCHANGED <<handle, running>>
    /\ UNCHANGED <<pc, op, arg, wait, reply, fileVars, bootVars, stderr, histVars>>

\* an address the reader does not know counted under a default code
Locat_ip_to_iso_code_default(t, addr) ==
    /\ handle = "Locat"
    /\ call(t, "Locat", "ip_to_iso_code", addr, "increment",
            IF lookup(addr) = None THEN "US" ELSE lookup(addr))
    /\ UNCHANGED <<fileVars, bootVars, stderr, histVars>>

\* whatever the code found, the increment is sent for US
Locat_ip_to_iso_code_fixed(t, addr) ==
    /\ handle = "Locat"
    /\ IF lookup(addr) = None
       THEN /\ t = NextCaller
            /\ ret' = [NoRet EXCEPT !.op = "ip_to_iso_code", !.arg = addr]
            /\ UNCHANGED <<connVars, nextId, pc, op, arg, wait, reply>>
       ELSE call(t, "Locat", "ip_to_iso_code", addr, "increment", "US")
    /\ UNCHANGED <<fileVars, bootVars, stderr, histVars>>

\* ip_to_iso_code up to its await: a miss returns None at once, a hit
\* calls self.analytics.increment(iso_code) and awaits it
Locat_ip_to_iso_code(t, addr) ==
    /\ handle = "Locat"
    /\ IF lookup(addr) = None
       THEN /\ t = NextCaller
            /\ ret' = [NoRet EXCEPT !.op = "ip_to_iso_code", !.arg = addr]
            /\ UNCHANGED <<connVars, nextId, pc, op, arg, wait, reply>>
       ELSE call(t, "Locat", "ip_to_iso_code", addr, "increment", lookup(addr))
    /\ UNCHANGED <<fileVars, bootVars, stderr, histVars>>

\* self.analytics.increment(iso_code).await.ok()? : the Err becomes None
ip_to_iso_code_ret_propagate(addr, r, id) ==
    [op |-> "ip_to_iso_code", arg |-> addr, ok |-> r.ok,
     code |-> IF r.ok THEN lookup(addr) ELSE None,
     rows |-> <<>>, inner |-> IF r.ok THEN "ok" ELSE "err", id |-> id]

\* if let Err(e) = .. { eprintln!(..) }  Some(iso_code)
ip_to_iso_code_ret(addr, r, id) ==
    [op |-> "ip_to_iso_code", arg |-> addr, ok |-> TRUE, code |-> lookup(addr),
     rows |-> <<>>,
     inner |-> IF r.ok THEN "ok" ELSE "err", id |-> id]

ip_to_iso_code_log(r) == IF r.ok THEN 0 ELSE 1

Locat_ip_to_iso_code_done(t) ==
    /\ resumed(t, "ip_to_iso_code")
    /\ return(t, ip_to_iso_code_ret(arg[t], reply[t], wait[t]))
    /\ stderr' = stderr + ip_to_iso_code_log(reply[t])
    /\ okInc' = IF reply[t].ok THEN [okInc EXCEPT ![lookup(arg[t])] = @ + 1]
                ELSE okInc
    /\ UNCHANGED <<fileVars, connVars, bootVars, nextId, gone>>

Locat_get_analytics(t) ==
    /\ call(t, "Locat", "get_analytics", None, "list", None)
    /\ UNCHANGED <<fileVars, bootVars, stderr, histVars>>

\* Ok(self.analytics.list().await.unwrap_or_default())
get_analytics_ret_default(r, id) ==
    [op |-> "get_analytics", arg |-> None, ok |-> TRUE, code |-> None,
     rows |-> IF r.ok THEN r.rows ELSE <<>>,
     inner |-> IF r.ok THEN "ok" ELSE "err", id |-> id]

\* Ok(self.analytics.list().await?)
get_analytics_ret(r, id) ==
    [op |-> "get_analytics", arg |-> None, ok |-> r.ok, code |-> None,
     rows |-> IF r.ok THEN r.rows ELSE <<>>,
     inner |-> IF r.ok THEN "ok" ELSE "err", id |-> id]

Locat_get_analytics_done(t) ==
    /\ resumed(t, "get_analytics")
    /\ return(t, get_analytics_ret(reply[t], wait[t]))
    /\ UNCHANGED <<fileVars, connVars, bootVars, nextId, stderr, histVars>>

\* dropping the future takes its closure back out of the queue
Abandon_cancel(t) ==
    /\ pc[t] = "awaiting"
    /\ pc' = [pc EXCEPT ![t] = "idle"]
    /\ op' = [op EXCEPT ![t] = "none"]
    /\ arg' = [arg EXCEPT ![t] = None]
    /\ wait' = [wait EXCEPT ![t] = 0]
    /\ reply' = [reply EXCEPT ![t] = NoReply]
    /\ gone' = (gone \/ op[t] \in {"increment", "ip_to_iso_code"})
    /\ queue' = SelectSeq(queue, LAMBDA j : j.id # wait[t])
    /\ UNCHANGED <<fileVars, handle, running, bootVars, ret, nextId, stderr, okInc>>

\* the caller drops the future it was awaiting (a timeout, a select!)
Abandon(t) ==
    /\ pc[t] = "awaiting"
    /\ pc' = [pc EXCEPT ![t] = "idle"]
    /\ op' = [op EXCEPT ![t] = "none"]
    /\ arg' = [arg EXCEPT ![t] = None]
    /\ wait' = [wait EXCEPT ![t] = 0]
    /\ reply' = [reply EXCEPT ![t] = NoReply]
    /\ gone' = (gone \/ op[t] \in {"increment", "ip_to_iso_code"})
    /\ UNCHANGED <<fileVars, connVars, bootVars, ret, nextId, stderr, okInc>>

\* ------------------------------------------- the connection's own thread
\* a queued list is taken before the increments sent ahead of it
WorkerRecv_lists_first ==
    /\ running = NoJob
    /\ queue # <<>>
    /\ LET lists == {i \in DOMAIN queue : queue[i].kind = "list"}
           k == IF lists = {} THEN 1
                ELSE CHOOSE i \in lists : \A j \in lists : i <= j
       IN  /\ running' = queue[k]
           /\ queue' = SubSeq(queue, 1, k - 1) \o SubSeq(queue, k + 1, Len(queue))
    /\ UNCHANGED <<fileVars, handle, bootVars, taskVars, nextId, stderr, histVars>>

\* the closure sent last is taken first
WorkerRecv_lifo ==
    /\ running = NoJob
    /\ queue # <<>>
    /\ running' = queue[Len(queue)]
    /\ queue' = SubSeq(queue, 1, Len(queue) - 1)
    /\ UNCHANGED <<fileVars, handle, bootVars, taskVars, nextId, stderr, histVars>>

\* while let Ok(f) = receiver.recv() { f(&mut conn) }
WorkerRecv ==
    /\ running = NoJob
    /\ queue # <<>>
    /\ running' = Head(queue)
    /\ queue' = Tail(queue)
    /\ UNCHANGED <<fileVars, handle, bootVars, taskVars, nextId, stderr, histVars>>

\* one answer channel shared by the callers: every waiting one gets it
send_broadcast(job, r) ==
    [t \in Tasks |->
        IF pc[t] = "awaiting" /\ ~reply[t].sent
        THEN [ok |-> r.ok, rows |-> r.rows, sent |-> TRUE]
        ELSE reply[t]]

\* let _ = sender.send(value): lost when the receiver was dropped
send(job, r) ==
    [t \in Tasks |->
        IF pc[t] = "awaiting" /\ wait[t] = job.id
        THEN [ok |-> r.ok, rows |-> r.rows, sent |-> TRUE]
        ELSE reply[t]]

\* a failed statement ends the thread's loop: the closure's caller gets
\* its error, the closures behind it are never taken
WorkerRunIncrement_stuck(fault) ==
    /\ running.kind = "increment"
    /\ LET r == increment_closure(tableExists, table, running.code, fault)
       IN  /\ table' = r.table
           /\ reply' = send(running, [ok |-> r.ok, rows |-> <<>>])
           /\ running' = IF r.ok THEN NoJob
                         ELSE [running EXCEPT !.kind = "stopped"]
    /\ UNCHANGED <<tableExists, handle, queue, bootVars, pc, op, arg, wait, ret,
                   nextId, stderr, histVars>>

WorkerRunIncrement(fault) ==
    /\ running.kind = "increment"
    /\ LET r == increment_closure(tableExists, table, running.code, fault)
       IN  /\ table' = r.table
           /\ reply' = send(running, [ok |-> r.ok, rows |-> <<>>])
    /\ running' = NoJob
    /\ UNCHANGED <<tableExists, handle, queue, bootVars, pc, op, arg, wait, ret,
                   nextId, stderr, histVars>>

WorkerRunList(failAt) ==
    /\ running.kind = "list"
    /\ failAt <= Len(table)
    /\ reply' = send(running, list_closure(tableExists, table, failAt))
    /\ running' = NoJob
    /\ UNCHANGED <<fileVars, handle, queue, bootVars, pc, op, arg, wait, ret,
                   nextId, stderr, histVars>>

\* ------------------------------------------------------------------ Next
OpenFaults == {"none", "open", "bootstrap"}
GeoFaults  == {"none", "io", "maxminddb"}

Next ==
    \/ \E f \in OpenFaults : Db_open(f)
    \/ \E g \in GeoFaults, f \in OpenFaults : Locat_new(g, f)
    \/ Db_drop
    \/ \E t \in Tasks, code \in Codes : Db_increment(t, code)
    \/ \E t \in Tasks : Db_increment_done(t)
    \/ \E t \in Tasks : Db_list(t)
    \/ \E t \in Tasks : Db_list_done(t)
    \/ \E t \in Tasks, a \in Addrs : Locat_ip_to_iso_code(t, a)
    \/ \E t \in Tasks : Locat_ip_to_iso_code_done(t)
    \/ \E t \in Tasks : Locat_get_analytics(t)
    \/ \E t \in Tasks : Locat_get_analytics_done(t)
    \/ \E t \in Tasks : Abandon(t)
    \/ WorkerRecv
    \/ \E fault \in BOOLEAN : WorkerRunIncrement(fault)
    \/ \E failAt \in -1..MaxCalls : WorkerRunList(failAt)

Spec == Init /\ [][Next]_vars

\* The crate's public face: Db is private, so a program using the crate
\* reaches the table through Locat alone.
NextLocat ==
    \/ \E g \in GeoFaults, f \in OpenFaults : Locat_new(g, f)
    \/ Db_drop
    \/ \E t \in Tasks, a \in Addrs : Locat_ip_to_iso_code(t, a)
    \/ \E t \in Tasks : Locat_ip_to_iso_code_done(t)
    \/ \E t \in Tasks : Locat_get_analytics(t)
    \/ \E t \in Tasks : Locat_get_analytics_done(t)
    \/ \E t \in Tasks : Abandon(t)
    \/ WorkerRecv
    \/ \E fault \in BOOLEAN : WorkerRunIncrement(fault)
    \/ \E failAt \in -1..MaxCalls : WorkerRunList(failAt)

SpecLocat == Init /\ [][NextLocat]_vars

\* The connection's thread loops on its channel and runs what it receives;
\* the runtime polls again a task whose answer has arrived.
FairSpec ==
    /\ Spec
    /\ WF_vars(WorkerRecv)
    /\ WF_vars(\E fault \in BOOLEAN : WorkerRunIncrement(fault))
    /\ WF_vars(\E failAt \in -1..MaxCalls : WorkerRunList(failAt))
    /\ \A t \in Tasks :
          /\ WF_vars(Db_increment_done(t))
          /\ WF_vars(Db_list_done(t))
          /\ WF_vars(Locat_ip_to_iso_code_done(t))
          /\ WF_vars(Locat_get_analytics_done(t))

\* ================================================================ claims
\* the closure a conn.call sent is still queued or executing
Pending(id) ==
    \/ running.id = id
    \/ \E i \in DOMAIN queue : queue[i].id = id

\* t is suspended in an increment of code (its own or ip_to_iso_code's)
AwaitsIncrement(t, code) ==
    /\ pc[t] = "awaiting"
    /\ \/ op[t] = "increment" /\ arg[t] = code
       \/ op[t] = "ip_to_iso_code" /\ lookup(arg[t]) = code

\* what list() returns when nothing fails
Listed == list_closure(tableExists, table, -1).rows

RowsOf(rows, code) == {i \in DOMAIN rows : rows[i][1] = code}

\* C1: on a store that started empty, once every increment that was called
\* has completed (none still awaited, none dropped), list() returns exactly
\* one pair (c, n) for every code c with n >= 1 completed increments, n
\* being their number, and no other pair.
C1_UpsertCounts ==
    (/\ ~gone
     /\ \A t \in Tasks, c \in Codes : ~AwaitsIncrement(t, c))
    => /\ \A c \in Codes :
            okInc[c] > 0 =>
                /\ Cardinality(RowsOf(Listed, c)) = 1
                /\ \E i \in DOMAIN Listed : Listed[i] = <<c, okInc[c]>>
       /\ \A i \in DOMAIN Listed : okInc[Listed[i][1]] > 0

\* two increments of US completed and a list() after them returned [(US, 2)]
C1_Witness ==
    /\ ret.op = "list" /\ ret.ok
    /\ ret.rows = << <<"US", 2>> >>
    /\ okInc["US"] = 2 /\ okInc["FR"] = 0
    /\ ~gone

\* C2: whatever the interleaving of the callers, the count stored for a code
\* is the number of increments of it that completed with Ok plus the number
\* whose Ok is on its way to a suspended caller: no increment is lost and
\* none is applied twice, so N awaited increments leave the count at N.
C2_NoLostUpdate ==
    ~gone =>
        \A c \in Codes :
            CountOf(table, c) =
                okInc[c] + Cardinality({t \in Tasks :
                    AwaitsIncrement(t, c) /\ reply[t].sent /\ reply[t].ok})

\* every caller dispatched an increment of US before any of them resumed,
\* and each of them was applied
C2_Witness ==
    /\ \A t \in Tasks :
          AwaitsIncrement(t, "US") /\ reply[t].sent /\ reply[t].ok
    /\ CountOf(table, "US") = NumTasks
    /\ ~gone

\* an increment of the code was called at some time
Touched(code) ==
    \/ okInc[code] > 0
    \/ \E t \in Tasks : AwaitsIncrement(t, code)
    \/ gone

C3_Rows(rows) ==
    \A i \in DOMAIN rows : rows[i][2] >= 1 /\ Touched(rows[i][1])

\* C3: neither the table nor what list() or get_analytics() returned holds
\* an entry for a code no increment was called for, or an entry with count
\* 0 (so the list of a new store is empty); and the count of a code changes
\* only while the connection's thread executes an increment of that code.
C3_KeyIndependence ==
    /\ [](C3_Rows(Listed) /\ (ret.op \in {"list", "get_analytics"} => C3_Rows(ret.rows)))
    /\ [][\A c \in Codes :
            CountOf(table', c) # CountOf(table, c) \/ HasRow(table', c) # HasRow(table, c)
                => running.kind = "increment" /\ running.code = c]_vars

\* list() returned [(US, 1), (FR, 1)]
C3_Witness ==
    /\ ret.op = "list" /\ ret.ok
    /\ ret.rows = << <<"US", 1>>, <<"FR", 1>> >>
    /\ ~gone
\* the original C4: a caller of ip_to_iso_code is never suspended while the
\* increment it dispatched is queued or executing
C4_ReturnsWithoutWaiting ==
    \A t \in Tasks :
        ~(pc[t] = "awaiting" /\ op[t] = "ip_to_iso_code" /\ Pending(wait[t]))

\* C4, amended: when the reader yields a code, ip_to_iso_code awaits the
\* increment it dispatched; its caller receives Some(code) only once that
\* closure is neither queued nor executing and its result (Ok or Err) has
\* come back.
C4_ReturnsAfterIncrement ==
    (ret.op = "ip_to_iso_code" /\ ret.ok)
        => ~Pending(ret.id) /\ ret.inner \in {"ok", "err"}

\* ip_to_iso_code returned Some("US") and the row of US is there
C4_Witness ==
    /\ ret.op = "ip_to_iso_code" /\ ret.ok /\ ret.code = "US"
    /\ ret.inner = "ok"
    /\ CountOf(table, "US") >= 1

\* C5: an ip_to_iso_code whose increment came back (Ok or Err) returned
\* Some(code), code being what the reader yields for its address; an Err
\* changes nothing of that, it writes one line to stderr, and nothing else
\* writes there.
C5_FailureSwallowed ==
    /\ []((ret.op = "ip_to_iso_code" /\ ret.inner \in {"ok", "err"})
            => /\ ret.ok
               /\ ret.code = lookup(ret.arg)
               /\ ret.code # None
               /\ (ret.inner = "err" => stderr >= 1))
    /\ [][/\ stderr' # stderr
             => /\ stderr' = stderr + 1
                /\ ret'.op = "ip_to_iso_code" /\ ret'.inner = "err" /\ ret'.ok
          /\ \A t \in Tasks :
                (Locat_ip_to_iso_code_done(t) /\ ~reply[t].ok)
                    => stderr' = stderr + 1]_vars

\* the increment failed, ip_to_iso_code returned Some("US") and logged it
C5_Witness ==
    /\ ret.op = "ip_to_iso_code" /\ ret.inner = "err"
    /\ ret.ok /\ ret.code = "US"
    /\ stderr = 1
    /\ ~HasRow(table, "US")

\* C6: an ip_to_iso_code of an address for which the reader yields no code
\* returns None without having awaited any conn.call, and the step in
\* which it returns sends no closure to the connection's thread and leaves
\* the table as it is.
C6_NoEffectOnMiss ==
    /\ []((ret.op = "ip_to_iso_code" /\ lookup(ret.arg) = None)
            => ~ret.ok /\ ret.code = None /\ ret.id = 0 /\ ret.inner = "-")
    /\ [][(ret' # ret /\ ret'.op = "ip_to_iso_code" /\ lookup(ret'.arg) = None)
            => UNCHANGED <<tableExists, table, queue, running, nextId, pc, wait>>]_vars

\* a miss returned None on a store that holds a row
C6_Witness ==
    /\ ret.op = "ip_to_iso_code" /\ ~ret.ok /\ ret.arg = "ip_unknown"
    /\ table # <<>>
    /\ queue = <<>> /\ running = NoJob
\* a Db::open or Locat::new in which nothing fails
OpensCleanly == Db_open("none") \/ Locat_new("none", "none")

\* C7: Db::open on a path whose table exists succeeds when the store itself
\* does not fail, and every step that opens a connection there leaves the
\* rows, and so what list() returns, as they were.
C7_IdempotentBootstrap ==
    [][/\ (tableExists /\ OpensCleanly) => (handle' # "none" /\ built' = "Ok")
       /\ (tableExists /\ handle = "none" /\ handle' # "none")
            => (tableExists' /\ table' = table /\ Listed' = Listed)]_vars

\* list() returned rows on a Db; the path was then opened again, by
\* Locat::new, and holds the same rows
C7_Witness ==
    /\ ret.op = "list" /\ ret.ok /\ ret.rows # <<>>
    /\ handle = "Locat"
    /\ Listed = ret.rows

\* C8: no step of any operation lowers the count of a code, removes its
\* row or removes the table.
C8_CountsNeverDecrease ==
    [][/\ \A c \in Codes :
            /\ CountOf(table', c) >= CountOf(table, c)
            /\ HasRow(table, c) => HasRow(table', c)
       /\ tableExists => tableExists']_vars

\* US was counted twice, the Db dropped and the path opened again
C8_Witness ==
    /\ CountOf(table, "US") = 2
    /\ okInc["US"] = 2
    /\ ret.op = "increment"
    /\ handle = "Locat"

NoDuplicate(rows) ==
    \A i, j \in DOMAIN rows : rows[i][1] = rows[j][1] => i = j

\* C9: the table holds at most one row per code, and so does what list()
\* or get_analytics() returned.
C9_OneRowPerCode ==
    /\ \A i, j \in DOMAIN table : table[i].iso_code = table[j].iso_code => i = j
    /\ NoDuplicate(Listed)
    /\ ret.op \in {"list", "get_analytics"} => NoDuplicate(ret.rows)

\* three increments of US, one row
C9_Witness ==
    table = << [iso_code |-> "US", count |-> 3] >>

\* C10: list() and get_analytics() return Ok exactly when the conn.call
\* they awaited returned Ok, and an Err carries no rows; the closure of
\* list answers with every row of the table or with an Err, never with
\* some of the rows.
C10_ListFailurePropagates ==
    /\ [](ret.op \in {"list", "get_analytics"}
            => /\ ret.ok <=> ret.inner = "ok"
               /\ ~ret.ok => ret.rows = <<>>)
    /\ [][\A t \in Tasks :
            (/\ pc[t] = "awaiting" /\ op[t] \in {"list", "get_analytics"}
             /\ ~reply[t].sent /\ reply'[t].sent)
                => reply'[t].rows = (IF reply'[t].ok THEN Listed ELSE <<>>)]_vars

\* get_analytics returned Err on a store that holds a row
C10_Witness ==
    /\ ret.op = "get_analytics" /\ ~ret.ok /\ ret.inner = "err"
    /\ table # <<>>
\* C11: a Db::open in which Connection::open or the bootstrap statement
\* fails returns the rusqlite error and leaves no Db, and so does the
\* Locat::new that called it: after any failed construction nobody holds a
\* connection, and while nobody does no function of Db or Locat is entered.
C11_OpenFailureSurfaced ==
    /\ [](built \in {"Rusqlite", "Io", "MaxMindDb"} => handle = "none")
    /\ [](handle = "none"
            => /\ \A t \in Tasks : pc[t] = "idle"
               /\ queue = <<>> /\ running = NoJob)
    /\ [][/\ \A f \in {"open", "bootstrap"} :
                (Db_open(f) \/ Locat_new("none", f))
                    => handle' = "none" /\ built' = "Rusqlite"
          /\ handle = "none" => (nextId' = nextId /\ pc' = pc /\ ret' = ret)]_vars

\* the first construction failed in the store: no handle, no call made
C11_Witness ==
    /\ built = "Rusqlite"
    /\ handle = "none"
    /\ nextId = 1

PendingIds == {running.id} \cup {queue[i].id : i \in DOMAIN queue}

\* C12: a call of increment or list sends exactly one closure; a closure
\* that has left the connection's thread is never queued or executed
\* again, and no closure is queued twice; the Err of a failed closure is
\* what the function returns, with nothing of it left to run.
C12_NoRetry ==
    /\ [](/\ \A i, j \in DOMAIN queue : queue[i].id = queue[j].id => i = j
          /\ \A i \in DOMAIN queue : queue[i].id # running.id /\ queue[i].id < nextId
          /\ (ret.op \in {"increment", "list"} /\ ret.inner = "err")
                => ~ret.ok /\ ~Pending(ret.id))
    /\ [][/\ nextId' # nextId
             => /\ nextId' = nextId + 1
                /\ Len(queue') = Len(queue) + 1
                /\ queue'[Len(queue')].id = nextId
          /\ Len(queue') > Len(queue) => nextId' = nextId + 1
          /\ \A id \in 1..MaxCalls :
                (id < nextId /\ ~Pending(id)) => ~Pending(id)']_vars

\* the only increment called failed: one closure was sent, none is left
C12_Witness ==
    /\ ret.op = "increment" /\ ~ret.ok /\ ret.inner = "err"
    /\ nextId = 2
    /\ queue = <<>> /\ running = NoJob

RowCount(rows, code) ==
    IF \E i \in DOMAIN rows : rows[i][1] = code
    THEN rows[CHOOSE i \in DOMAIN rows : rows[i][1] = code][2]
    ELSE 0

\* increments of code that were executed with Ok
Applied(code) ==
    okInc[code] + Cardinality({t \in Tasks :
        AwaitsIncrement(t, code) /\ reply[t].sent /\ reply[t].ok})

\* C14: when the closure of a list is executed, every closure sent before
\* it has been executed and every closure sent after it is still queued;
\* the rows it answers with are the whole table of that moment, which
\* (when no increment's future was dropped) counts for each code exactly
\* the increments executed with Ok, all of them sent before the list.
C14_ListSeesPrefix ==
    [][(running.kind = "list" /\ running' = NoJob)
        => /\ \A id \in 1..MaxCalls :
                /\ id < running.id => ~Pending(id)
                /\ (running.id < id /\ id < nextId)
                      => \E i \in DOMAIN queue : queue[i].id = id
           /\ UNCHANGED <<queue, table>>
           /\ \A t \in Tasks :
                (pc[t] = "awaiting" /\ wait[t] = running.id)
                    => /\ reply'[t].sent
                       /\ reply'[t].ok => reply'[t].rows = Listed
                       /\ (reply'[t].ok /\ ~gone)
                            => \A c \in Codes :
                                  RowCount(reply'[t].rows, c) = Applied(c)]_vars

\* a list answered [(US, 1)] while an increment sent after it is queued
C14_Witness ==
    \E t \in Tasks :
        /\ pc[t] = "awaiting" /\ op[t] \in {"list", "get_analytics"}
        /\ reply[t].sent /\ reply[t].ok
        /\ reply[t].rows = << <<"US", 1>> >>
        /\ queue # <<>> /\ queue[1].kind = "increment" /\ queue[1].id > wait[t]
        /\ table = << [iso_code |-> "US", count |-> 1] >>

\* no caller awaits the answer of this closure
Orphan(id) == \A t \in Tasks : ~(pc[t] = "awaiting" /\ wait[t] = id)

\* C15: a caller leaving its await, resumed or not, takes nothing out of
\* the queue and stops nothing the thread is executing; a closure nobody
\* awaits any more is executed like any other (its increment, when the
\* statement does not fail, adds 1), its answer reaches no caller, and
\* the thread is then free for the next closure.
C15_AbandonedWorkRuns ==
    [][/\ \A t \in Tasks :
            (pc[t] = "awaiting" /\ pc'[t] = "idle")
                => UNCHANGED <<queue, running, tableExists, table>>
       /\ (Orphan(running.id) /\ WorkerRunIncrement(FALSE))
            => CountOf(table', running.code) = CountOf(table, running.code) + 1
       /\ (running # NoJob /\ Orphan(running.id) /\ running' # running)
            => running' = NoJob /\ reply' = reply /\ queue' = queue]_vars

\* the only increment called was dropped by its caller and US stands at 1
C15_Witness ==
    /\ gone
    /\ nextId = 2
    /\ \A t \in Tasks : pc[t] = "idle"
    /\ queue = <<>> /\ running = NoJob
    /\ okInc["US"] = 0
    /\ CountOf(table, "US") = 1

C17_OwnAnswerOnce ==
    /\ [](\A t \in Tasks :
            /\ reply[t].sent => pc[t] = "awaiting" /\ ~Pending(wait[t])
            /\ (pc[t] = "awaiting" /\ ~reply[t].sent) => Pending(wait[t]) 
            /\ \A u \in Tasks :
                  (pc[t] = "awaiting" /\ pc[u] = "awaiting" /\ wait[t] = wait[u])
                      => t = u)
    /\ [][\A t \in Tasks :
            /\ (reply'[t] # reply[t] /\ reply'[t].sent)
                 => /\ ~reply[t].sent
                    /\ running.id = wait[t] /\ running' = NoJob
                    /\ IF op[t] \in {"list", "get_analytics"}
                       THEN running.kind = "list"
                       ELSE running.kind = "increment" /\ AwaitsIncrement(t, running.code)
            /\ (pc[t] = "awaiting" /\ ret'.id = wait[t] /\ ret.id # wait[t])
                 => /\ reply[t].sent
                    /\ pc'[t] = "idle"
                    /\ ret'.op = op[t]
                    /\ ret'.inner = (IF reply[t].ok THEN "ok" ELSE "err")
                    /\ ret'.rows = reply[t].rows]_vars

\* one caller has the rows of its list, another still waits for its increment
C17_Witness ==
    \E t, u \in Tasks :
        /\ pc[t] = "awaiting" /\ op[t] = "list" /\ reply[t].sent /\ reply[t].ok
        /\ pc[u] = "awaiting" /\ op[u] = "increment" /\ ~reply[u].sent
\* C18: under FairSpec every closure sent by increment or list is
\* eventually executed, also the ones queued behind a closure that failed;
\* every suspended caller eventually has its answer, Ok or Err, unless it
\* dropped its future first, and a caller that has its answer eventually
\* leaves its await.
C18_EventuallyAnswered ==
    /\ \A id \in 1..MaxCalls : Pending(id) ~> ~Pending(id)
    /\ \A t \in Tasks :
          /\ (pc[t] = "awaiting") ~> (reply[t].sent \/ pc[t] = "idle")
          /\ reply[t].sent ~> (pc[t] = "idle")

\* an increment was answered Err while another closure waits behind it
C18_Witness ==
    \E t \in Tasks :
        /\ pc[t] = "awaiting" /\ op[t] \in {"increment", "ip_to_iso_code"}
        /\ reply[t].sent /\ ~reply[t].ok
        /\ running = NoJob
        /\ queue # <<>>
\* C19: the step in which an increment is answered Err, and any step of
\* an increment whose statement fails, leaves the file as it was; so does
\* the step executing the closure of a list, whatever its outcome, and
\* every step of a caller of list or get_analytics.
C19_FailureChangesNothing ==
    [][/\ \A t \in Tasks :
            (reply'[t].sent /\ ~reply[t].sent /\ ~reply'[t].ok)
                => UNCHANGED <<tableExists, table>>
       /\ WorkerRunIncrement(TRUE) => UNCHANGED <<tableExists, table>>
       /\ (running.kind = "list" /\ running' # running)
            => UNCHANGED <<tableExists, table>>
       /\ \A t \in Tasks :
            (pc'[t] # pc[t] /\ (op[t] \in {"list", "get_analytics"}
                                \/ op'[t] \in {"list", "get_analytics"}))
                => UNCHANGED <<tableExists, table>>]_vars

\* US was incremented once with Ok; a second increment has returned Err
\* and the table still reads (US, 1)
C19_Witness ==
    /\ ret.op = "increment" /\ ~ret.ok /\ ret.inner = "err"
    /\ tableExists
    /\ table = << [iso_code |-> "US", count |-> 1] >>
    /\ okInc["US"] = 1 /\ okInc["FR"] = 0
    /\ ~gone

RECURSIVE Total(_)
Total(tbl) == IF tbl = <<>> THEN 0 ELSE Head(tbl).count + Total(Tail(tbl))

RECURSIVE Returned(_)
Returned(S) ==
    IF S = {} THEN 0
    ELSE LET c == CHOOSE x \in S : TRUE IN okInc[c] + Returned(S \ {c})

Quiescent ==
    /\ \A t \in Tasks : pc[t] = "idle"
    /\ queue = <<>>
    /\ running = NoJob

\* C20, as stated: once all the work sent has been executed, each code's
\* count is the number of ip_to_iso_code calls that returned that code
\* after an increment that succeeded.
C20_CountsReturnedCalls ==
    Quiescent => \A c \in Codes : CountOf(table, c) = okInc[c]

\* C20, amended: under SpecLocat a call of ip_to_iso_code whose lookup
\* finds a code sends exactly one increment closure, for that code, and a
\* miss sends none; okInc counts exactly the calls that returned a code
\* after an Ok increment. Once all the work sent has been executed, each
\* code's count is at least that number and the counts sum to at most the
\* number of closures sent; when no caller dropped its future the count
\* of each code equals that number and the sums are equal.
C20_OneIncrementPerHit ==
    /\ [](Quiescent =>
            /\ \A c \in Codes : CountOf(table, c) >= okInc[c]
            /\ Total(table) <= nextId - 1
            /\ ~gone => /\ \A c \in Codes : CountOf(table, c) = okInc[c]
                        /\ Total(table) = Returned(Codes))
    /\ [][/\ \A t \in Tasks :
               (pc[t] = "idle" /\ pc'[t] = "awaiting" /\ op'[t] = "ip_to_iso_code")
                   => /\ lookup(arg'[t]) \in Codes
                      /\ queue' = Append(queue, [kind |-> "increment",
                                                 code |-> lookup(arg'[t]),
                                                 id |-> nextId])
                      /\ nextId' = nextId + 1
          /\ (ret' # ret /\ ret'.op = "ip_to_iso_code" /\ pc' = pc)
               => /\ lookup(ret'.arg) = None /\ ret'.code = None
                  /\ queue' = queue /\ nextId' = nextId /\ okInc' = okInc
          /\ okInc' # okInc
               => /\ ret' # ret /\ ret'.op = "ip_to_iso_code"
                  /\ ret'.code \in Codes /\ ret'.inner = "ok"
                  /\ okInc' = [okInc EXCEPT ![ret'.code] = @ + 1]
          /\ (ret' # ret /\ ret'.op = "ip_to_iso_code" /\ ret'.code \in Codes)
               => /\ ret'.code = lookup(ret'.arg)
                  /\ okInc' = IF ret'.inner = "ok"
                              THEN [okInc EXCEPT ![ret'.code] = @ + 1]
                              ELSE okInc]_vars

\* three calls found US, US and FR; all returned and the counts are 2 and 1
C20_Witness ==
    /\ Quiescent /\ ~gone
    /\ handle = "Locat"
    /\ nextId = 4
    /\ okInc["US"] = 2 /\ okInc["FR"] = 1
    /\ CountOf(table, "US") = 2 /\ CountOf(table, "FR") = 1
    /\ Total(table) = 3

====
